---- MODULE Spec2Model ----
(***************************************************************************)
(* Model of web_scraper.py: the WebScraper class that reads records from   *)
(* Airtable, scrapes the LinkedIn links of each record's page, writes them *)
(* back and reports a summary.                                             *)
(*                                                                         *)
(* Python strings are sequences of one-character strings, so that prefix,  *)
(* suffix, case folding and URL splitting are computed character by        *)
(* character as str and urllib.parse compute them.                         *)
(***************************************************************************)
EXTENDS Integers, Sequences, FiniteSets, TLC

(***************************************************************************)
(* str helpers                                                             *)
(***************************************************************************)

UpperChars == <<"A","B","C","D","E","F","G","H","I","J","K","L","M","N","O","P","Q","R","S","T","U","V","W","X","Y","Z">>

LowerChars == <<"a","b","c","d","e","f","g","h","i","j","k","l","m","n","o","p","q","r","s","t","u","v","w","x","y","z">>

DigitChars == {"0","1","2","3","4","5","6","7","8","9"}

Range(s) == {s[k] : k \in 1..Len(s)}

\* F(e), with e evaluated once
Bind(e, F(_)) == CHOOSE r \in {F(v) : v \in {e}} : TRUE

\* min(S), for a non-empty set of integers
Min(S) == CHOOSE k \in S : \A j \in S : k <= j

\* s[-1]
Last(s) == s[Len(s)]

\* max(S), for a non-empty set of integers
Max(S) == CHOOSE k \in S : \A j \in S : k >= j

\* str.lower() on one character
LowerChar(c) ==
    IF \E k \in 1..26 : UpperChars[k] = c
    THEN LowerChars[CHOOSE k \in 1..26 : UpperChars[k] = c]
    ELSE c

\* str.lower()
Lower(s0) == Bind(s0, LAMBDA s : [k \in 1..Len(s) |-> LowerChar(s[k])])

\* s[a:b] with Python's 0-based, end-exclusive, clamped indices (a, b >= 0)
Slice(s, a, b) ==
    IF a >= b \/ a >= Len(s) THEN <<>>
    ELSE SubSeq(s, a + 1, IF b > Len(s) THEN Len(s) ELSE b)

\* s[a:]
From(s, a) == Slice(s, a, Len(s))

\* str.startswith(p)
StartsWith(s, p) == Len(p) <= Len(s) /\ SubSeq(s, 1, Len(p)) = p

\* str.endswith(p)
EndsWith(s, p) == Len(p) <= Len(s) /\ SubSeq(s, Len(s) - Len(p) + 1, Len(s)) = p

\* sub in s
Contains(s, sub) ==
    \E k \in 0..(Len(s) - Len(sub)) : SubSeq(s, k + 1, k + Len(sub)) = sub

\* str.find(c, start) for a single character: 0-based index, or -1
Find(s, c, start) ==
    Bind({k \in start..(Len(s) - 1) : s[k + 1] = c},
         LAMBDA hits : IF hits = {} THEN -1 ELSE Min(hits))

\* str.rfind(c) for a single character: 0-based index, or -1
RFind(s, c) ==
    Bind({k \in 0..(Len(s) - 1) : s[k + 1] = c},
         LAMBDA hits : IF hits = {} THEN -1 ELSE Max(hits))

\* the characters str.strip() removes (those the record values are built of)
Whitespace == {" ", "\t", "\n"}

\* str.lstrip()
LStrip(s) ==
    Bind({k \in 1..Len(s) : s[k] \notin Whitespace},
         LAMBDA keep : IF keep = {} THEN <<>> ELSE SubSeq(s, Min(keep), Len(s)))

\* str.rstrip()
RStrip(s) ==
    Bind({k \in 1..Len(s) : s[k] \notin Whitespace},
         LAMBDA keep : IF keep = {} THEN <<>> ELSE SubSeq(s, 1, Max(keep)))

\* str.strip()
Strip(s) == Bind(LStrip(s), LAMBDA t : RStrip(t))

\* str.split(c) for a single character
RECURSIVE Split(_, _)
Split(s0, c) ==
    Bind(s0, LAMBDA s :
    Bind(Find(s, c, 0), LAMBDA k :
        IF k < 0 THEN <<s>> ELSE <<Slice(s, 0, k)>> \o Split(From(s, k + 1), c)))

\* sep.join(parts)
RECURSIVE Join(_, _)
Join(parts0, sep) ==
    Bind(parts0, LAMBDA parts :
        IF parts = <<>> THEN <<>>
        ELSE IF Len(parts) = 1 THEN parts[1]
        ELSE parts[1] \o sep \o Join(Tail(parts), sep))

(***************************************************************************)
(* urllib.parse, as web_scraper.py imports it (line 5): urlparse is called *)
(* by is_valid_link (line 124) and urljoin by scrape_page_links (line 101).*)
(* URLs here are ASCII without "]" and without tab or newline.             *)
(***************************************************************************)

SchemeChars == Range(UpperChars) \cup Range(LowerChars) \cup DigitChars \cup {"+", "-", "."}

\* the schemes of urllib.parse.uses_relative / uses_netloc / uses_params that
\* the URLs of this model can have
UsesRelative == {<<>>, <<"h","t","t","p">>, <<"h","t","t","p","s">>, <<"f","t","p">>}

UsesNetloc == {<<>>, <<"h","t","t","p">>, <<"h","t","t","p","s">>, <<"f","t","p">>}

UsesParams == {<<>>, <<"h","t","t","p">>, <<"h","t","t","p","s">>, <<"f","t","p">>}

\* urlsplit's scheme detection: the index of ":" when what precedes it is a scheme
SchemeEnd(url) ==
    Bind(Find(url, ":", 0), LAMBDA k :
        IF k > 0 /\ (url[1] \in Range(UpperChars) \cup Range(LowerChars))
           /\ \A j \in 1..k : url[j] \in SchemeChars
        THEN k ELSE -1)

\* _splitnetloc(url, 2): the end of the authority
NetlocEnd(url) ==
    Bind({Find(url, c, 2) : c \in {"/", "?", "#"}} \ {-1},
         LAMBDA ds : IF ds = {} THEN Len(url) ELSE Min(ds))

\* urlsplit, after the scheme: the authority, then the fragment, then the query
SplitRest(scheme, url2) ==
    Bind(Slice(url2, 0, 2) = <<"/","/">>, LAMBDA hasNet :
    Bind(NetlocEnd(url2), LAMBDA d :
    Bind(IF hasNet THEN Slice(url2, 2, d) ELSE <<>>, LAMBDA netloc :
    Bind(IF hasNet THEN From(url2, d) ELSE url2, LAMBDA url3 :
    Bind(Find(url3, "#", 0), LAMBDA h :
    Bind(IF h >= 0 THEN Slice(url3, 0, h) ELSE url3, LAMBDA url4 :
    Bind(Find(url4, "?", 0), LAMBDA q :
        [raised   |-> ("[" \in Range(netloc)) # ("]" \in Range(netloc)),
         scheme   |-> scheme,
         netloc   |-> netloc,
         path     |-> IF q >= 0 THEN Slice(url4, 0, q) ELSE url4,
         params   |-> <<>>,
         query    |-> IF q >= 0 THEN From(url4, q + 1) ELSE <<>>,
         fragment |-> IF h >= 0 THEN From(url3, h + 1) ELSE <<>>])))))))

\* urlsplit(url, scheme): raised is the ValueError("Invalid IPv6 URL")
UrlSplit(url0, scheme0) ==
    Bind(LStrip(url0), LAMBDA url1 :
    Bind(SchemeEnd(url1), LAMBDA k :
        IF k > 0 THEN SplitRest(Lower(Slice(url1, 0, k)), From(url1, k + 1))
        ELSE SplitRest(scheme0, url1)))

\* _splitparams(url): the index of the ";" that starts the params, or -1
ParamsStart(url) ==
    IF "/" \in Range(url) THEN Find(url, ";", RFind(url, "/")) ELSE Find(url, ";", 0)

\* urlparse(url, scheme)
UrlParse(url, scheme0) ==
    Bind(UrlSplit(url, scheme0), LAMBDA s :
    Bind(ParamsStart(s.path), LAMBDA p :
        IF s.scheme \in UsesParams /\ ";" \in Range(s.path) /\ p >= 0
        THEN [s EXCEPT !.path = Slice(s.path, 0, p), !.params = From(s.path, p + 1)]
        ELSE s))

\* urlunsplit, with urlunparse's re-attachment of the params
UrlUnparse(scheme, netloc, path0, params, query, fragment) ==
    Bind(IF params # <<>> THEN path0 \o <<";">> \o params ELSE path0, LAMBDA u1 :
    Bind(IF netloc # <<>>
            \/ (scheme # <<>> /\ scheme \in UsesNetloc /\ Slice(u1, 0, 2) # <<"/","/">>)
         THEN <<"/","/">> \o netloc \o (IF u1 # <<>> /\ Head(u1) # "/" THEN <<"/">> \o u1 ELSE u1)
         ELSE u1, LAMBDA u2 :
        (IF scheme # <<>> THEN scheme \o <<":">> ELSE <<>>)
        \o u2
        \o (IF query # <<>> THEN <<"?">> \o query ELSE <<>>)
        \o (IF fragment # <<>> THEN <<"#">> \o fragment ELSE <<>>)))

\* filter(None, segments[1:-1]) put back between the first and the last segment
DropEmpty(segs) ==
    LET NotEmpty(seg) == seg # <<>>
    IN  SelectSeq(segs, NotEmpty)

FilterMiddle(segs) ==
    IF Len(segs) <= 2 THEN segs
    ELSE <<segs[1]>> \o DropEmpty(SubSeq(segs, 2, Len(segs) - 1)) \o <<segs[Len(segs)]>>

\* urljoin's loop over the segments, resolving "." and ".."
RECURSIVE Resolve(_, _)
Resolve(segs0, acc0) ==
    Bind(segs0, LAMBDA segs :
    Bind(acc0, LAMBDA acc :
        IF segs = <<>> THEN acc
        ELSE IF Head(segs) = <<".",".">>
             THEN Resolve(Tail(segs), IF acc = <<>> THEN acc ELSE SubSeq(acc, 1, Len(acc) - 1))
        ELSE IF Head(segs) = <<".">>
             THEN Resolve(Tail(segs), acc)
        ELSE Resolve(Tail(segs), Append(acc, Head(segs)))))

\* urljoin's path: the segments of the reference merged with the base's directory
\* and resolved
JoinPath(bpath, path) ==
    Bind(Split(bpath, "/"), LAMBDA baseParts0 :
    Bind(IF baseParts0[Len(baseParts0)] # <<>>
         THEN SubSeq(baseParts0, 1, Len(baseParts0) - 1) ELSE baseParts0, LAMBDA baseParts :
    Bind(IF Slice(path, 0, 1) = <<"/">>
         THEN Split(path, "/")
         ELSE FilterMiddle(baseParts \o Split(path, "/")), LAMBDA segments :
    Bind(Resolve(segments, <<>>), LAMBDA resolved0 :
    Bind(Join(IF segments[Len(segments)] \in {<<".">>, <<".",".">>}
              THEN Append(resolved0, <<>>) ELSE resolved0, <<"/">>), LAMBDA joined :
        IF joined = <<>> THEN <<"/">> ELSE joined)))))

\* urljoin(base, url): raised is the ValueError of urlparse
UrlJoin(base, url) ==
    IF base = <<>> THEN [raised |-> FALSE, url |-> url]
    ELSE IF url = <<>> THEN [raised |-> FALSE, url |-> base]
    ELSE
    Bind(UrlParse(base, <<>>), LAMBDA b :
    Bind(UrlParse(url, b.scheme), LAMBDA u :
        IF b.raised \/ u.raised THEN [raised |-> TRUE, url |-> <<>>]
        ELSE IF u.scheme # b.scheme \/ u.scheme \notin UsesRelative
             THEN [raised |-> FALSE, url |-> url]
        ELSE IF u.scheme \in UsesNetloc /\ u.netloc # <<>>
             THEN [raised |-> FALSE,
                   url |-> UrlUnparse(u.scheme, u.netloc, u.path, u.params, u.query, u.fragment)]
        ELSE IF u.path = <<>> /\ u.params = <<>>
             THEN [raised |-> FALSE,
                   url |-> UrlUnparse(u.scheme, b.netloc, b.path, b.params,
                                      IF u.query = <<>> THEN b.query ELSE u.query, u.fragment)]
        ELSE [raised |-> FALSE,
              url |-> UrlUnparse(u.scheme, b.netloc, JoinPath(b.path, u.path),
                                 u.params, u.query, u.fragment)]))

(***************************************************************************)
(* State                                                                   *)
(***************************************************************************)

VARIABLES
    config,       \* self.config, loaded by __init__
    hashSeed,     \* the process's string-hash seed: it fixes the iteration order of a set of str
    store,        \* the records the Airtable table holds
    records,      \* run's local: the records being processed
    pc,           \* where run() is
    i,            \* run's loop counter (enumerate(records, 1))
    all_results,  \* run's local: the summary
    updates,      \* the PATCH requests update_airtable_record has sent
    clock,        \* milliseconds slept so far by time.sleep
    fetchClock,   \* the value of clock at each page GET, in order
    lastScrape,   \* the last call of scrape_page_links: its url, the response, what it did
    saved,        \* the document written to output.outputPath
    probe         \* a call of is_valid_link: its link and its verdict

vars == <<config, hashSeed, store, records, pc, i, all_results, updates, clock,
          fetchClock, lastScrape, saved, probe>>

(***************************************************************************)
(* is_valid_link (lines 117-153)                                           *)
(***************************************************************************)

\* line 145
excluded_paths == <<<<"/","l","o","g","i","n">>, <<"/","s","i","g","n","u","p">>, <<"/","h","e","l","p">>, <<"/","l","e","g","a","l">>, <<"/","p","r","i","v","a","c","y">>, <<"/","c","o","o","k","i","e","-","p","o","l","i","c","y">>>>

\* line 141: any(path.endswith(ext) for ext in blockedExtensions)
HasBlockedExtension(path) ==
    \E k \in 1..Len(config.blockedExtensions) : EndsWith(path, config.blockedExtensions[k])

\* line 146: any(excluded in path for excluded in excluded_paths)
HasExcludedPath(path) ==
    \E k \in 1..Len(excluded_paths) : Contains(path, excluded_paths[k])

\* is_valid_link(link, source_url); a ValueError of urlparse is caught (line 151)
is_valid_link(link, source_url) ==
    IF ~StartsWith(link, config.requiredPrefix) THEN FALSE
    ELSE
    Bind(UrlParse(link, <<>>), LAMBDA parsed :
        IF parsed.raised THEN FALSE
        ELSE IF parsed.scheme = <<>> \/ parsed.netloc = <<>> THEN FALSE
        ELSE IF Len(link) < config.minLinkLength THEN FALSE
        ELSE
        Bind(Lower(parsed.netloc), LAMBDA domain :
        Bind(Lower(parsed.path), LAMBDA path :
            IF ~Contains(domain, <<"l","i","n","k","e","d","i","n",".","c","o","m">>) THEN FALSE
            ELSE IF HasBlockedExtension(path) THEN FALSE
            ELSE IF HasExcludedPath(path) THEN FALSE
            ELSE TRUE)))

(***************************************************************************)
(* The parsed page (BeautifulSoup(response.content, 'html.parser'), line   *)
(* 86): a sequence of elements in document order, each with the index of   *)
(* its parent (0 for a top-level element), its tag, its class and its href *)
(* attribute (<<>> when it has none or an empty one).  A selector names a  *)
(* tag, a class, or both ("" for either).                                  *)
(***************************************************************************)

\* the element n and everything below it
RECURSIVE Under(_, _, _)
Under(doc, n, root) ==
    IF n = root THEN TRUE
    ELSE IF doc[n].parent = 0 THEN FALSE
    ELSE Under(doc, doc[n].parent, root)

Subtree(doc, root) == {n \in 1..Len(doc) : Under(doc, n, root)}

Matches(el, selector) ==
    /\ selector.tag = "" \/ el.tag = selector.tag
    /\ selector.cls = "" \/ el.cls = selector.cls

\* soup.select(selector): the matching elements still in the tree, in document order
Select(doc, alive, selector) ==
    LET Selected(n) == n \in alive /\ Matches(doc[n], selector)
    IN  SelectSeq([n \in 1..Len(doc) |-> n], Selected)

\* a variant of line 91 that takes the matched elements out and leaves what is below them
DecomposeElementsOnly(doc, alive, elements) == alive \ Range(elements)

\* element.decompose() on every element of a select() result
Decompose(doc, alive, elements) ==
    alive \ UNION {Subtree(doc, elements[k]) : k \in 1..Len(elements)}

\* lines 89-91: the elements left after the exclusion selectors, applied in order
RECURSIVE RemoveExcluded(_, _, _)
RemoveExcluded(doc, alive0, selectors) ==
    Bind(alive0, LAMBDA alive :
        IF selectors = <<>> THEN alive
        ELSE RemoveExcluded(doc, Decompose(doc, alive, Select(doc, alive, Head(selectors))),
                            Tail(selectors)))

\* lines 96-97: the elements the link selectors yield, in the order of the two loops
RECURSIVE LinkElements(_, _, _)
LinkElements(doc, alive, selectors) ==
    IF selectors = <<>> THEN <<>>
    ELSE Select(doc, alive, Head(selectors)) \o LinkElements(doc, alive, Tail(selectors))

\* lines 98-103 for the elements els: the links in the order they were first
\* added to the set, the elements that added one, and whether urljoin raised
RECURSIVE Collect(_, _, _, _)
Collect(doc, url, els0, acc0) ==
    Bind(els0, LAMBDA els :
    Bind(acc0, LAMBDA acc :
        IF els = <<>> THEN acc
        ELSE IF doc[Head(els)].href = <<>> THEN Collect(doc, url, Tail(els), acc)
        ELSE
        Bind(UrlJoin(url, doc[Head(els)].href), LAMBDA absolute_url :
            IF absolute_url.raised THEN [acc EXCEPT !.raised = TRUE]
            ELSE IF is_valid_link(absolute_url.url, url)
                 THEN Collect(doc, url, Tail(els),
                              [acc EXCEPT !.inserted = IF absolute_url.url \in Range(@) THEN @
                                                       ELSE Append(@, absolute_url.url),
                                          !.from = @ \cup {Head(els)}])
            ELSE Collect(doc, url, Tail(els), acc))))

(***************************************************************************)
(* scrape_page_links (lines 74-115)                                        *)
(***************************************************************************)

\* the links the pages of this model can yield
LinkA == <<"h","t","t","p","s",":","/","/","w","w","w",".","l","i","n","k","e","d","i","n",".","c","o","m","/","i","n","/","a","l","i","c","e">>

LinkB == <<"h","t","t","p","s",":","/","/","w","w","w",".","l","i","n","k","e","d","i","n",".","c","o","m","/","c","o","m","p","a","n","y","/","a","c","m","e">>

LinkC == <<"h","t","t","p","s",":","/","/","l","i","n","k","e","d","i","n",".","c","o","m","/","i","n","/","b","o","b">>

LinkD == <<"h","t","t","p","s",":","/","/","w","w","w",".","l","i","n","k","e","d","i","n",".","c","o","m","/","i","n","/","c","a","r","o","l">>

LinkE == <<"h","t","t","p","s",":","/","/","w","w","w",".","l","i","n","k","e","d","i","n",".","c","o","m","/","s","c","h","o","o","l","/","m","i","t">>

LinkUniverse == <<LinkA, LinkB, LinkC, LinkD, LinkE>>

\* the hash seeds: every order in which a set of these links can be iterated
Seeds ==
    {p \in [1..Len(LinkUniverse) -> 1..Len(LinkUniverse)] :
        \A a, b \in 1..Len(LinkUniverse) : a # b => p[a] # p[b]}

\* list(s) / iteration over a set of str: the order the hash seed gives
SetOrder(s0) ==
    Bind(s0, LAMBDA s :
        LET In(l) == l \in s
        IN  SelectSeq([k \in 1..Len(LinkUniverse) |-> LinkUniverse[hashSeed[k]]], In))

\* lines 106-108: set(list(links)[:max_links]) when max_links > 0
Truncate(links) ==
    IF config.maxLinksPerPage > 0
    THEN Range(Slice(SetOrder(links), 0, config.maxLinksPerPage))
    ELSE links

\* a variant of line 84 that never raises for the status
RaisesForStatusNever(status) == FALSE

\* response.raise_for_status(): an HTTPError for a 4xx or 5xx status
RaisesForStatus(status) == 400 <= status /\ status < 600

\* session.get(url) raises a RequestException: no connection, a timeout, or a
\* URL without a host (requests' InvalidURL)
GetFails(url, resp) == resp.error \/ UrlSplit(url, <<>>).netloc = <<>>

NoLinks == [raised |-> FALSE, failed |-> FALSE, links |-> {}, inserted |-> <<>>,
            from |-> {}, alive |-> {}]

\* scrape_page_links(url) when the GET is answered by resp.
\*   raised: an exception other than requests.RequestException left the method
\*   failed: a RequestException was caught (line 113) and set() returned
\*   links:  the set returned
\*   inserted, from, alive: the links in the order links.add first saw them, the
\*   elements that passed is_valid_link, the elements left after lines 89-91
scrape_page_links(url, resp) ==
    IF GetFails(url, resp) \/ RaisesForStatus(resp.status)
    THEN [NoLinks EXCEPT !.failed = TRUE]
    ELSE
    Bind(RemoveExcluded(resp.doc, 1..Len(resp.doc), config.excludeSelectors), LAMBDA alive :
    Bind(LinkElements(resp.doc, alive, config.linkSelectors), LAMBDA els :
    Bind(Collect(resp.doc, url, els, [NoLinks EXCEPT !.alive = alive]), LAMBDA got :
        IF got.raised THEN got
        ELSE [got EXCEPT !.links = Truncate(Range(got.inserted))])))

(***************************************************************************)
(* Pages, responses, records and configurations                            *)
(***************************************************************************)

El(parent, tag, cls, href) == [parent |-> parent, tag |-> tag, cls |-> cls, href |-> href]

Sel(tag, cls) == [tag |-> tag, cls |-> cls]

\* five distinct accepted links, one of them twice, one scheme-relative
DocFive == <<
    El(0, "div", "main", <<>>),
    El(1, "a", "", LinkA),
    El(1, "a", "", <<"/","/","w","w","w",".","l","i","n","k","e","d","i","n",".","c","o","m","/","c","o","m","p","a","n","y","/","a","c","m","e">>),
    El(1, "a", "", LinkC),
    El(1, "a", "", LinkD),
    El(1, "a", "", LinkE),
    El(0, "a", "", LinkA),
    El(0, "a", "", <<"/","l","o","g","i","n">>),
    El(0, "a", "", <<"h","t","t","p","s",":","/","/","w","w","w",".","l","i","n","k","e","d","i","n",".","c","o","m","/","l","o","g","i","n">>) >>

\* links inside a div.sidebar and a nav, and outside them
DocNested == <<
    El(0, "div", "sidebar", <<>>),
    El(1, "a", "", LinkA),
    El(1, "span", "", <<>>),
    El(3, "a", "", LinkB),
    El(0, "nav", "", <<>>),
    El(5, "a", "ext", LinkD),
    El(0, "a", "", LinkD),
    El(0, "a", "", LinkE),
    El(0, "a", "", <<>>) >>

\* an href urljoin cannot parse
DocBad == <<
    El(0, "a", "", LinkA),
    El(0, "a", "", <<"/","/","[">>),
    El(0, "a", "", LinkB) >>

\* three accepted links and one link in a nav
DocRun == <<
    El(0, "a", "", LinkA),
    El(0, "a", "", LinkC),
    El(0, "a", "ext", LinkB),
    El(0, "nav", "", <<>>),
    El(4, "a", "", LinkD) >>

\* the body of a redirect or of an error page
DocMoved == << El(0, "a", "", LinkA) >>

Resp(error, status, doc) == [error |-> error, status |-> status, doc |-> doc]

NoResp == Resp(FALSE, 0, <<>>)

\* what a page GET of run can be answered with
RunResponses == {
    Resp(FALSE, 200, DocRun),
    Resp(FALSE, 200, DocBad),
    Resp(FALSE, 301, DocMoved),
    Resp(FALSE, 500, DocMoved),
    Resp(TRUE, 0, <<>>) }

\* what the GET of a single scrape can be answered with
ScrapeResponses ==
    {Resp(FALSE, s, d) : s \in {200, 204, 301, 404, 503},
                         d \in {DocFive, DocNested, DocBad, DocRun, DocMoved, <<>>}}
    \cup {Resp(TRUE, 0, <<>>)}

ScrapeUrls == {<<"h","t","t","p","s",":","/","/","e","x","a","m","p","l","e",".","c","o","m","/","a">>, <<"h","t","t","p",":","/","/","b",".","i","o","/","t","e","a","m">>, <<"h","t","t","p","s",":","/","/">>}

\* a record of the table: 'id', and in 'fields' the link column, which is
\* absent, a str or a number
Rec(hasId, id, kind, s, n) ==
    [hasId |-> hasId, id |-> id, field |-> [kind |-> kind, s |-> s, n |-> n]]

RecordPool == {
    Rec(TRUE, "recA", "str", <<"e","x","a","m","p","l","e",".","c","o","m","/","a">>, 0),
    Rec(TRUE, "recB", "str", <<>>, 0),
    Rec(TRUE, "recC", "absent", <<>>, 0),
    Rec(TRUE, "recD", "str", <<" "," ">> \o <<"h","t","t","p",":","/","/","b",".","i","o","/","t","e","a","m">> \o <<" ","\n">>, 0),
    Rec(FALSE, "", "str", <<"h","t","t","p","s",":","/","/","c",".","i","o">>, 0),
    Rec(TRUE, "recF", "num", <<>>, 7) }

\* the longest table of the model
MaxStore == 2

Stores == UNION {[1..n -> RecordPool] : n \in 0..MaxStore}

BaseConfig == [
    requiredPrefix      |-> <<"h","t","t","p","s",":","/","/">>,
    minLinkLength       |-> 25,
    blockedExtensions   |-> <<<<".","p","d","f">>, <<".","j","p","g">>>>,
    excludeSelectors    |-> <<Sel("nav", ""), Sel("", "sidebar")>>,
    linkSelectors       |-> <<Sel("a", ""), Sel("", "ext")>>,
    maxLinksPerPage     |-> 2,
    maxRecordsToProcess |-> 3,
    requestDelay        |-> 1000,
    updateAirtable      |-> TRUE,
    saveToFile          |-> TRUE ]

RunConfigs ==
    {[BaseConfig EXCEPT !.updateAirtable = u, !.saveToFile = s, !.maxRecordsToProcess = r] :
        u \in BOOLEAN, s \in BOOLEAN, r \in {1, 3}}

\* the seeds that differ on the links a page of RunResponses can yield
RunSeeds == {p \in Seeds : p[4] = 4 /\ p[5] = 5}

ScrapeConfigs ==
    {[BaseConfig EXCEPT !.maxLinksPerPage = m, !.requiredPrefix = p] :
        m \in {0, 1, 3}, p \in {<<"h","t","t","p","s",":","/","/">>, <<"h","t","t","p","s",":","/","/","w","w","w",".","l","i","n","k","e","d","i","n",".","c","o","m">>}}

FilterConfigs == {
    BaseConfig,
    [BaseConfig EXCEPT !.requiredPrefix = <<"h","t","t","p","s",":","/","/","w","w","w",".","l","i","n","k","e","d","i","n",".","c","o","m">>, !.minLinkLength = 30],
    [BaseConfig EXCEPT !.requiredPrefix = <<"h","t","t","p","s",":">>, !.blockedExtensions = <<<<".","P","D","F">>, <<".","p","n","g">>>>] }

FilterLinks ==
    {s \o h \o p :
        s \in {<<"h","t","t","p","s",":","/","/">>, <<"h","t","t","p",":","/","/">>, <<"H","T","T","P","S",":","/","/">>, <<"h","t","t","p","s",":">>, <<>>},
        h \in {<<"w","w","w",".","l","i","n","k","e","d","i","n",".","c","o","m">>, <<"l","i","n","k","e","d","i","n",".","c","o","m">>, <<"W","W","W",".","L","i","n","k","e","d","I","n",".","C","O","M">>, <<"e","x","a","m","p","l","e",".","c","o","m">>,
               <<"l","i","n","k","e","d","i","n",".","c","o","m",".","e","v","i","l",".","i","o">>, <<"[","l","i","n","k","e","d","i","n",".","c","o","m">>, <<>>},
        p \in {<<>>, <<"/","i","n","/","a","l","i","c","e">>, <<"/","i","n">>, <<"/","l","o","g","i","n">>, <<"/","L","O","G","I","N">>, <<"/","i","n","/","h","e","l","p","/","m","e">>, <<"/","c","v",".","p","d","f">>,
               <<"/","c","v",".","P","D","F">>, <<"/","c","v",".","p","d","f",";","v","=","1">>, <<"/","c","v",".","p","d","f","?","d","l","=","1">>, <<"/","i","n","/","a","l","?","n","e","x","t","=","/","l","o","g","i","n">>,
               <<"/","a",".","p","n","g">>, <<"/","i","n","/","a","l","i","c","e","#","/","l","e","g","a","l">>, <<"/","C","o","o","k","i","e","-","P","o","l","i","c","y">>}}

(***************************************************************************)
(* run (lines 155-226)                                                     *)
(***************************************************************************)

\* `if not source_url` (line 178): None, '' and 0 are falsy
Falsy(field) ==
    \/ field.kind = "absent"
    \/ field.kind = "str" /\ field.s = <<>>
    \/ field.kind = "num" /\ field.n = 0

\* lines 185-187
Normalize(source_url) ==
    Bind(Strip(source_url), LAMBDA s :
        IF StartsWith(s, <<"h","t","t","p",":","/","/">>) \/ StartsWith(s, <<"h","t","t","p","s",":","/","/">>) THEN s ELSE <<"h","t","t","p","s",":","/","/">> \o s)

\* a variant of line 191 that keeps every scraped link
SiteFilterOmitted(scraped_links) == SetOrder(scraped_links)

\* line 191, over the set's iteration order
SiteFilter(scraped_links) ==
    LET Canonical(link) == StartsWith(link, <<"h","t","t","p","s",":","/","/","w","w","w",".","l","i","n","k","e","d","i","n",".","c","o","m">>)
    IN  SelectSeq(SetOrder(scraped_links), Canonical)

\* lines 194-200
ScrapeResult(row, record_id, source_url, linkedin_links) ==
    [row_number |-> row, record_id |-> record_id, source_url |-> source_url,
     linkedin_links |-> linkedin_links, linkedin_links_count |-> Len(linkedin_links)]

\* a variant of lines 50-72 without the updateAirtable test of line 52
update_airtable_record_always(record_id, scraped_links, ok) ==
    Append(updates, [record_id |-> record_id,
                     payload   |-> Join(scraped_links, <<"\n">>),
                     ok        |-> ok])

\* update_airtable_record(record_id, scraped_links) (lines 50-72): the PATCH
\* requests sent so far, with the one of this call; ok is whether this PATCH
\* succeeds (a failure is the RequestException caught on line 71)
update_airtable_record(record_id, scraped_links, ok) ==
    IF ~config.updateAirtable THEN updates
    ELSE Append(updates, [record_id |-> record_id,
                          payload   |-> Join(scraped_links, <<"\n">>),
                          ok        |-> ok])

NoScrape == [url |-> <<>>, resp |-> NoResp, done |-> FALSE, out |-> NoLinks]

NoProbe == [link |-> <<>>, verdict |-> "none"]

NotSaved == [written |-> FALSE, doc |-> <<>>]

Init ==
    /\ config \in RunConfigs
    /\ hashSeed \in RunSeeds
    /\ store \in Stores
    /\ records = <<>>
    /\ pc = "start"
    /\ i = 0
    /\ all_results = <<>>
    /\ updates = <<>>
    /\ clock = 0
    /\ fetchClock = <<>>
    /\ lastScrape = NoScrape
    /\ saved = NotSaved
    /\ probe = NoProbe

\* lines 160-171, with get_airtable_records (lines 34-48): a failed request
\* gives [] like an empty table, and run returns
FetchRecords ==
    /\ pc = "start"
    /\ \E ok \in BOOLEAN :
        \E fetched \in {IF ok THEN store ELSE <<>>} :
            IF fetched = <<>>
            THEN /\ pc' = "stopped"
                 /\ UNCHANGED <<records, i>>
            ELSE /\ records' = Slice(fetched, 0, config.maxRecordsToProcess)
                 /\ i' = 1
                 /\ pc' = "loop"
    /\ UNCHANGED <<config, hashSeed, store, all_results, updates, clock, fetchClock,
                   lastScrape, saved, probe>>

\* lines 173-201: one record, up to the append of its result
ProcessRecord ==
    /\ pc = "loop"
    /\ i <= Len(records)
    /\ \E record \in {records[i]} :
           IF ~record.hasId
           THEN \* line 174: KeyError
                /\ pc' = "raised"
                /\ UNCHANGED <<i, all_results, fetchClock, lastScrape>>
           ELSE IF Falsy(record.field)
           THEN \* lines 178-180: continue
                /\ i' = i + 1
                /\ UNCHANGED <<pc, all_results, fetchClock, lastScrape>>
           ELSE IF record.field.kind # "str"
           THEN \* line 185: AttributeError, the value has no strip()
                /\ pc' = "raised"
                /\ UNCHANGED <<i, all_results, fetchClock, lastScrape>>
           ELSE \E resp \in RunResponses :
                \E source_url \in {Normalize(record.field.s)} :
                \E out \in {scrape_page_links(source_url, resp)} :
                    /\ fetchClock' = Append(fetchClock, clock)
                    /\ lastScrape' = [url |-> source_url, resp |-> resp, done |-> TRUE,
                                      out |-> out]
                    /\ IF out.raised
                       THEN /\ pc' = "raised"
                            /\ UNCHANGED all_results
                       ELSE /\ all_results' =
                                 Append(all_results,
                                        ScrapeResult(i, record.id, source_url,
                                                     SiteFilter(out.links)))
                            /\ pc' = "update"
                    /\ UNCHANGED i
    /\ UNCHANGED <<config, hashSeed, store, records, updates, clock, saved, probe>>

\* line 204
UpdateRecord ==
    /\ pc = "update"
    /\ \E result \in {all_results[Len(all_results)]} :
           \E ok \in BOOLEAN :
             updates' = update_airtable_record(result.record_id, result.linkedin_links, ok)
    /\ pc' = "sleep"
    /\ UNCHANGED <<config, hashSeed, store, records, i, all_results, clock, fetchClock,
                   lastScrape, saved, probe>>

\* a variant of line 207 that sleeps only after a record that had links
SleepDelayAfterLinksOnly ==
    IF Last(all_results).linkedin_links_count > 0 THEN config.requestDelay ELSE 0

\* line 207: time.sleep(requestDelay / 1000), in milliseconds
SleepDelay == config.requestDelay

\* line 207, and the loop's next iteration
Sleep ==
    /\ pc = "sleep"
    /\ clock' = clock + SleepDelay
    /\ i' = i + 1
    /\ pc' = "loop"
    /\ UNCHANGED <<config, hashSeed, store, records, all_results, updates, fetchClock,
                   lastScrape, saved, probe>>

\* lines 209-226: the loop is over. writable is whether open(outputPath, 'w')
\* succeeds (it raises OSError otherwise); encodes is whether the encoding of
\* sys.stdout has the non-ASCII characters of the row line that line 222 prints
\* for each result (print raises UnicodeEncodeError otherwise, after the file
\* was written)
Report ==
    /\ pc = "loop"
    /\ i > Len(records)
    /\ \E writable \in BOOLEAN, encodes \in BOOLEAN :
         IF config.saveToFile /\ ~writable
         THEN \* line 211: OSError
              /\ pc' = "raised"
              /\ UNCHANGED saved
         ELSE /\ saved' = IF config.saveToFile
                          THEN [written |-> TRUE, doc |-> all_results]
                          ELSE saved
              /\ pc' = IF all_results # <<>> /\ ~encodes
                       THEN "raised"   \* line 222: UnicodeEncodeError
                       ELSE "done"
    /\ UNCHANGED <<config, hashSeed, store, records, i, all_results, updates, clock,
                   fetchClock, lastScrape, probe>>

Next == FetchRecords \/ ProcessRecord \/ UpdateRecord \/ Sleep \/ Report

Spec == Init /\ [][Next]_vars

(***************************************************************************)
(* One call of scrape_page_links on a page, and one call of is_valid_link  *)
(* on a link                                                               *)
(***************************************************************************)

InitScrape ==
    /\ config \in ScrapeConfigs
    /\ hashSeed \in Seeds
    /\ \E u \in ScrapeUrls, r \in ScrapeResponses :
         lastScrape = [url |-> u, resp |-> r, done |-> FALSE, out |-> NoLinks]
    /\ store = <<>>
    /\ records = <<>>
    /\ pc = "scrape"
    /\ i = 0
    /\ all_results = <<>>
    /\ updates = <<>>
    /\ clock = 0
    /\ fetchClock = <<>>
    /\ saved = NotSaved
    /\ probe = NoProbe

ScrapePage ==
    /\ pc = "scrape"
    /\ ~lastScrape.done
    /\ lastScrape' = [lastScrape EXCEPT !.done = TRUE,
                                        !.out = scrape_page_links(lastScrape.url, lastScrape.resp)]
    /\ UNCHANGED <<config, hashSeed, store, records, pc, i, all_results, updates, clock,
                   fetchClock, saved, probe>>

SpecScrape == InitScrape /\ [][ScrapePage]_vars

InitFilter ==
    /\ config \in FilterConfigs
    /\ probe \in {[link |-> l, verdict |-> "none"] : l \in FilterLinks}
    /\ hashSeed = [k \in 1..Len(LinkUniverse) |-> k]
    /\ store = <<>>
    /\ records = <<>>
    /\ pc = "filter"
    /\ i = 0
    /\ all_results = <<>>
    /\ updates = <<>>
    /\ clock = 0
    /\ fetchClock = <<>>
    /\ lastScrape = NoScrape
    /\ saved = NotSaved

CheckLink ==
    /\ pc = "filter"
    /\ probe.verdict = "none"
    /\ probe' = [probe EXCEPT !.verdict =
                    IF is_valid_link(probe.link, <<>>) THEN "accept" ELSE "reject"]
    /\ UNCHANGED <<config, hashSeed, store, records, pc, i, all_results, updates, clock,
                   fetchClock, lastScrape, saved>>

SpecFilter == InitFilter /\ [][CheckLink]_vars

(***************************************************************************)
(* Properties                                                              *)
(***************************************************************************)

RunOver == pc \in {"done", "raised"}

\* C1: run() never raises: whatever the records hold and however each fetch,
\* parse, URL resolution, validation and update ends, no exception leaves run().
C1_RunNeverRaises == pc # "raised"

\* the page GET failed: a network failure, or a 4xx or 5xx status
FetchFailed(resp) == resp.error \/ (400 <= resp.status /\ resp.status < 600)

\* the page GET failed in the sense of "non-2xx": a network failure, or any
\* status outside 200..299
FetchNot2xx(resp) == resp.error \/ resp.status < 200 \/ resp.status > 299

\* the step that fetches the page of record i was taken and the GET ended as Failed says
FetchStep(Failed(_)) ==
    /\ pc = "loop"
    /\ Len(fetchClock') = Len(fetchClock) + 1
    /\ Failed(lastScrape'.resp)

\* after that step: scrape returned the empty set without raising, the summary
\* has a new entry for record i with no links, and run goes on to the update
EmptyResultStep ==
    /\ ~lastScrape'.out.raised
    /\ lastScrape'.out.links = {}
    /\ pc' = "update"
    /\ all_results' = Append(all_results,
                             ScrapeResult(i, records[i].id, lastScrape'.url, <<>>))
    /\ Last(all_results').linkedin_links_count = 0

\* C2 (as amended): when the page fetch of a record fails with a 4xx or 5xx
\* status or a network failure, scrape returns the empty set without raising,
\* the summary gets a ScrapeResult for the record with linkedin_links_count = 0,
\* and run continues: it goes on to the update and the delay, and back at the
\* head of the loop it is at a later record.
C2_FailedFetchGivesEmptyResult ==
    /\ [][FetchStep(FetchFailed) => EmptyResultStep]_vars
    /\ [][(pc = "sleep" /\ FetchFailed(lastScrape.resp))
            => (pc' = "loop" /\ i' = Last(all_results).row_number + 1
                /\ all_results' = all_results)]_vars

\* C2 (as stated): the same for every non-2xx status.
C2_Non2xxGivesEmptyResult == [][FetchStep(FetchNot2xx) => EmptyResultStep]_vars

\* C2's case: a fetch answered 500, its entry with no links in the summary, and
\* run back at the head of the loop with a record left
C2_Witness ==
    /\ pc = "loop"
    /\ i <= Len(records)
    /\ lastScrape.done
    /\ lastScrape.resp.status = 500
    /\ all_results # <<>>
    /\ Last(all_results).linkedin_links_count = 0

\* the rows of the summary, in order
Rows == [k \in 1..Len(all_results) |-> all_results[k].row_number]

EntriesOf(k) == {j \in 1..Len(all_results) : all_results[j].row_number = k}

\* C3: when run is over, a record whose source-URL field is missing or empty has
\* no summary entry and caused no fetch, every other record has exactly one
\* entry, with its 1-based position as row_number and its trimmed, https://
\* prefixed value as source_url, and the entries are in increasing row order.
C3_OneEntryPerUrlRecord ==
    RunOver =>
        /\ \A k \in 1..Len(records) :
             IF Falsy(records[k].field)
             THEN EntriesOf(k) = {}
             ELSE /\ Cardinality(EntriesOf(k)) = 1
                  /\ records[k].field.kind = "str" =>
                       \A j \in EntriesOf(k) :
                           all_results[j].source_url = Normalize(records[k].field.s)
        /\ \A j \in 1..(Len(all_results) - 1) : Rows[j] < Rows[j + 1]
        /\ Len(fetchClock) = Len(all_results)

\* the six rules, each on its own
RulePrefix(link) == StartsWith(link, config.requiredPrefix)

RuleParses(link) ==
    LET p == UrlParse(link, <<>>)
    IN  ~p.raised /\ p.scheme # <<>> /\ p.netloc # <<>>

RuleLength(link) == Len(link) >= config.minLinkLength

\* the required domain substring is the one line 137 names
RuleDomain(link) == Contains(Lower(UrlParse(link, <<>>).netloc), <<"l","i","n","k","e","d","i","n",".","c","o","m">>)

\* a case-insensitive suffix match: the case-folded path against each blocked
\* extension, case-folded
RuleExtension(link) ==
    LET path == Lower(UrlParse(link, <<>>).path)
    IN  \A k \in 1..Len(config.blockedExtensions) :
            ~EndsWith(path, Lower(config.blockedExtensions[k]))

\* the path, compared without regard to case, contains no excluded substring
RuleExcluded(link) ==
    LET path == Lower(UrlParse(link, <<>>).path)
    IN  \A k \in 1..Len(excluded_paths) : ~Contains(path, excluded_paths[k])

\* C4: is_valid_link always answers, and it accepts a URL exactly when it starts
\* with the required prefix, parses with a scheme and a host, is at least
\* minLinkLength long, has the required domain substring in its case-folded
\* host, has a case-folded path that ends with none of the blocked extensions
\* (a case-insensitive suffix match), and has a path that contains none of the
\* excluded substrings.
C4_AcceptsExactlyTheRules ==
    probe.verdict # "none" =>
        /\ probe.verdict \in {"accept", "reject"}
        /\ (probe.verdict = "accept") <=>
              /\ RulePrefix(probe.link)
              /\ RuleParses(probe.link)
              /\ RuleLength(probe.link)
              /\ RuleDomain(probe.link)
              /\ RuleExtension(probe.link)
              /\ RuleExcluded(probe.link)

\* a scrape that got a page, with more accepted links than maxLinksPerPage allows
Truncating ==
    /\ lastScrape.done
    /\ ~lastScrape.out.failed /\ ~lastScrape.out.raised
    /\ config.maxLinksPerPage > 0
    /\ Len(lastScrape.out.inserted) > config.maxLinksPerPage

\* C5: when more than maxLinks distinct links are accepted, the set returned has
\* exactly maxLinks members, all of them accepted links, and they are the first
\* maxLinks in insertion order.
C5_TruncationKeepsFirstInserted ==
    Truncating =>
        /\ Cardinality(lastScrape.out.links) = config.maxLinksPerPage
        /\ lastScrape.out.links \subseteq Range(lastScrape.out.inserted)
        /\ lastScrape.out.links =
               Range(SubSeq(lastScrape.out.inserted, 1, config.maxLinksPerPage))

\* C6: between any two consecutive page fetches run has slept the inter-request
\* delay, whatever the scrape and the update did, so a run that has fetched N
\* pages has slept at least (N-1) * requestDelay.
C6_DelayBetweenFetches ==
    /\ \A k \in 1..(Len(fetchClock) - 1) :
           fetchClock[k + 1] - fetchClock[k] >= config.requestDelay
    /\ fetchClock # <<>> => clock >= (Len(fetchClock) - 1) * config.requestDelay

\* C6's case: a second fetch after a record whose fetch and whose update failed
C6_Witness ==
    /\ Len(fetchClock) = 2
    /\ updates # <<>> /\ ~updates[1].ok
    /\ all_results[1].linkedin_links_count = 0
    /\ fetchClock[2] - fetchClock[1] = config.requestDelay

\* the element n of doc is in a subtree that an exclusion selector matches
InExcludedSubtree(doc, n) ==
    \E k \in 1..Len(config.excludeSelectors), m \in 1..Len(doc) :
        Matches(doc[m], config.excludeSelectors[k]) /\ Under(doc, n, m)

\* the element n of doc matches an inclusion selector and has a link the filter accepts
Includable(doc, url, n) ==
    /\ \E k \in 1..Len(config.linkSelectors) : Matches(doc[n], config.linkSelectors[k])
    /\ doc[n].href # <<>>
    /\ ~UrlJoin(url, doc[n].href).raised
    /\ is_valid_link(UrlJoin(url, doc[n].href).url, url)

\* C7: no element inside a subtree matched by an exclusion selector contributes
\* a link, also when it matches an inclusion selector: every link returned is
\* the link of an element outside those subtrees.
C7_ExcludedSubtreesContributeNothing ==
    lastScrape.done =>
        /\ \A n \in lastScrape.out.from : ~InExcludedSubtree(lastScrape.resp.doc, n)
        /\ \A l \in lastScrape.out.links :
             \E n \in 1..Len(lastScrape.resp.doc) :
                /\ ~InExcludedSubtree(lastScrape.resp.doc, n)
                /\ Includable(lastScrape.resp.doc, lastScrape.url, n)
                /\ UrlJoin(lastScrape.url, lastScrape.resp.doc[n].href).url = l

\* C7's case: a page with an element that is inside an excluded subtree, matches
\* an inclusion selector and has an acceptable link that no other element has
C7_Witness ==
    /\ lastScrape.done
    /\ lastScrape.out.links # {}
    /\ \E n \in 1..Len(lastScrape.resp.doc) :
         /\ InExcludedSubtree(lastScrape.resp.doc, n)
         /\ Includable(lastScrape.resp.doc, lastScrape.url, n)
         /\ lastScrape.resp.doc[n].href \notin lastScrape.out.links

\* the results whose update has been attempted
Attempted == IF pc = "update" THEN Len(all_results) - 1 ELSE Len(all_results)

\* the results whose delay has been slept
Slept == IF pc \in {"update", "sleep"} THEN Len(all_results) - 1 ELSE Len(all_results)

\* C8: with write-back enabled every ScrapeResult gets exactly one update
\* attempt, after its scrape and before its delay, with its record id and its
\* link list; with write-back disabled there is none; whether the attempt
\* fails or not, run goes on to the delay and nothing is sent again.
C8_OneUpdatePerResult ==
    /\ [](/\ ~config.updateAirtable => updates = <<>>
          /\ config.updateAirtable =>
               /\ Len(updates) = Attempted
               /\ \A k \in 1..Len(updates) :
                    /\ updates[k].record_id = all_results[k].record_id
                    /\ updates[k].payload = Join(all_results[k].linkedin_links, <<"\n">>)
          /\ clock = Slept * config.requestDelay)
    /\ [][pc = "update" => pc' = "sleep"]_vars
    /\ [][\A k \in 1..Len(updates) : k <= Len(updates') /\ updates'[k] = updates[k]]_vars

\* C8's case: a failed update, and a later record whose update was sent
C8_Witness ==
    /\ Len(updates) = 2
    /\ ~updates[1].ok
    /\ updates[2].record_id = all_results[2].record_id
    /\ updates[2].payload # <<>>
    /\ pc = "sleep"

\* C9: a run that fetched at least one record ends in REPORT, whatever happened
\* to its records, and what it then persists (when save-to-file is enabled) is
\* the summary accumulated: run ends nowhere else.
C9_RunEndsInReport ==
    (records # <<>> /\ pc \notin {"loop", "update", "sleep"}) =>
        /\ pc = "done"
        /\ config.saveToFile => (saved.written /\ saved.doc = all_results)

\* a ScrapeResult as run builds it
WellFormedResult(r) ==
    /\ r.linkedin_links_count = Len(r.linkedin_links)
    /\ \A k \in 1..Len(r.linkedin_links) :
         /\ is_valid_link(r.linkedin_links[k], r.source_url)
         /\ StartsWith(r.linkedin_links[k], <<"h","t","t","p","s",":","/","/","w","w","w",".","l","i","n","k","e","d","i","n",".","c","o","m">>)

\* C10: every ScrapeResult of the summary has only links that is_valid_link
\* accepts and that start with https://www.linkedin.com, has their number as
\* its count, and never changes once appended.
C10_ResultsFilteredAndFrozen ==
    /\ [](\A k \in 1..Len(all_results) : WellFormedResult(all_results[k]))
    /\ [][\A k \in 1..Len(all_results) :
            k <= Len(all_results') /\ all_results'[k] = all_results[k]]_vars

\* C10's case: a scrape that returned a link of another LinkedIn host, and the
\* entry made of it, which has a link but not that one
C10_Witness ==
    /\ pc = "sleep"
    /\ LinkC \in lastScrape.out.links
    /\ Last(all_results).linkedin_links_count = 1
    /\ Len(all_results) = 2

====
